---- MODULE Spec2Model ----
(***************************************************************************)
(* Model of src/app.py: the page numbering engine add_page_numbers_to_pdf  *)
(* with its helper create_page_number_overlay, and the part of the         *)
(* Streamlit script that calls it and consumes its result.                 *)
(*                                                                         *)
(* A document is a sequence of pages.  A page is a record                  *)
(*   [id, width, height, content]                                          *)
(* where content is the sequence of content streams drawn on the page, in  *)
(* drawing order: the first is the page's original content, every later    *)
(* one is an overlay merged onto it.                                       *)
(***************************************************************************)
EXTENDS Integers, Sequences, FiniteSets, TLC

VARIABLES
    pdf_bytes,      \* the uploaded document handed to the engine (its pages)
    fault,          \* the condition, if any, that makes a library call raise
    start_page,     \* argument start_page
    end_page,       \* argument end_page: <<>> is None, <<n>> is the integer n
    pc,             \* position of the script / of the engine call
    reader_pages,   \* reader.pages (merge_page mutates these in place)
    writer_pages,   \* the pages added to writer so far
    total_pages,    \* len(reader.pages)
    page_idx,       \* number of pages of reader.pages already iterated
    progress_bar,   \* st.progress element: shown?, and the fraction num/den
    status_text,    \* st.empty element: 0 when empty, else the page announced
    result,         \* what the call returned: unset, bytes, or None
    error,          \* the st.error report of the except clause
    download,       \* the st.download_button offered by the caller
    call_args,      \* the arguments as the caller passed them (end may be None)
    calls,          \* number of engine calls started on this document lineage
    applied,        \* intervals of the calls that returned a document, in order
    selection_text, \* the page-selection text given to the range parser
    totalPages,     \* the page count given to the range parser
    selection       \* what the range parser returned: unset, ok, or InvalidFormat

vars == <<pdf_bytes, fault, start_page, end_page, pc, reader_pages, writer_pages,
          total_pages, page_idx, progress_bar, status_text, result, error,
          download, call_args, calls, applied, selection_text, totalPages,
          selection>>

parser_vars == <<selection_text, totalPages, selection>>

engine_vars == <<pdf_bytes, fault, start_page, end_page, pc, reader_pages,
                 writer_pages, total_pages, page_idx, progress_bar, status_text,
                 result, error, download, call_args, calls, applied>>

----------------------------------------------------------------------------
(* Bounds of the model *)

MaxPages == 3
MaxCalls == 2
MaxLen == 5
MaxTotal == 2

(* Program constants *)

Margin == 15
DefaultFontSize == 12
DefaultFontName == "Helvetica"

(* Page geometries of the uploaded documents, in points *)
Letter == <<612, 792>>
A4 == <<595, 842>>

(* A document is all letter, all A4, or letter and A4 pages in turn *)
Layouts == {"letter", "a4", "mixed"}

PageSize(layout, i) ==
    IF layout = "letter" THEN Letter
    ELSE IF layout = "a4" THEN A4
    ELSE IF i % 2 = 1 THEN Letter ELSE A4

----------------------------------------------------------------------------
(* Values *)

None == [kind |-> "None", pages |-> <<>>]
Unset == [kind |-> "unset", pages |-> <<>>]
NoError == [shown |-> FALSE, prefix |-> "", detail |-> ""]
NoDownload == [offered |-> FALSE, data |-> <<>>]
NoFault == [kind |-> "none", page |-> 0]
NotParsed == [kind |-> "unset", pages |-> <<>>]
InvalidFormat == [kind |-> "InvalidFormat", pages |-> <<>>]

OriginalContent(i) == [kind |-> "original", id |-> i]

OriginalPage(i, size) ==
    [id |-> i, width |-> size[1], height |-> size[2],
     content |-> <<OriginalContent(i)>>]

(* The documents a user can upload: n pages in one of the layouts *)
Documents ==
    { [i \in 1..n |-> OriginalPage(i, PageSize(layout, i))] :
        n \in 0..MaxPages, layout \in Layouts }

(* What can go wrong in the libraries for a document of n pages: the bytes *)
(* do not decode, one page has no readable geometry, or writing fails.     *)
Faults(n) ==
    { NoFault, [kind |-> "decode", page |-> 0], [kind |-> "write", page |-> 0] }
    \cup { [kind |-> "page", page |-> k] : k \in 1..n }

----------------------------------------------------------------------------
(* str(page_num): the decimal digits of an integer *)

Digits == <<"0", "1", "2", "3", "4", "5", "6", "7", "8", "9">>

RECURSIVE str(_)
str(n) ==
    IF n < 0 THEN <<"-">> \o str(-n)
    ELSE IF n < 10 THEN <<Digits[n + 1]>>
    ELSE str(n \div 10) \o <<Digits[(n % 10) + 1]>>

(* int(text): the integer a sequence of decimal digits denotes *)
DigitValue(c) == CHOOSE d \in 0..9 : Digits[d + 1] = c

RECURSIVE int(_)
int(text) ==
    IF text = <<>> THEN 0
    ELSE 10 * int(SubSeq(text, 1, Len(text) - 1)) + DigitValue(text[Len(text)])

(* create_page_number_overlay: a one-page document of the page's size with *)
(* the number right-aligned at (page_width - 15, page_height - 15)         *)
create_page_number_overlay(page_num, page_width, page_height, font_size, font_name) ==
    << [id |-> 0, width |-> page_width, height |-> page_height,
        content |-> << [kind |-> "overlay",
                        text |-> str(page_num),
                        x_pos |-> page_width - Margin,
                        y_pos |-> page_height - Margin,
                        font_size |-> font_size,
                        font_name |-> font_name] >>] >>

(* page.merge_page(overlay_page): the overlay's content is drawn after the *)
(* content the page already has                                            *)
merge_page_replace(page, overlay_page) ==
    [page EXCEPT !.content = overlay_page.content]

merge_page(page, overlay_page) ==
    [page EXCEPT !.content = @ \o overlay_page.content]

(* writer.add_page(page) *)
add_page(writer, page) == Append(writer, page)

(* line 95: the page is numbered unless it lies before start or after end *)
Numbered(idx, start, end) == ~(idx + 1 < start \/ idx + 1 > end)

(* lines 96-98: a page outside the interval is added as it is *)
skip_page_dropped(writer, page) == writer

skip_page(writer, page) == add_page(writer, page)

(* line 100 *)
current_page_num_shifted(start, idx) == start + (idx - start)

current_page_num(start, idx) == start + (idx + 1 - start)

(* lines 85-86 *)
default_end_short(end, total) == IF end = <<>> THEN total - 1 ELSE end[1]

default_end(end, total) == IF end = <<>> THEN total ELSE end[1]

(* line 103 *)
progress_late(idx, total) == [shown |-> TRUE, num |-> idx, den |-> total]

progress(idx, total) == [shown |-> TRUE, num |-> idx + 1, den |-> total]

(* line 89: st.progress(0) *)
ProgressZero == [shown |-> TRUE, num |-> 0, den |-> 1]

(* lines 133-134, and the state before the call *)
ProgressEmpty == [shown |-> FALSE, num |-> 0, den |-> 1]

(* lines 128-136: the bytes of the written document *)
getvalue_falsy(writer) ==
    IF writer = <<>> THEN None ELSE [kind |-> "bytes", pages |-> writer]

getvalue(writer) == [kind |-> "bytes", pages |-> writer]

(* lines 138-140: the except clause reports str(e) and returns None *)
except_report_silent(e) == NoError

except_report(e) ==
    [shown |-> TRUE, prefix |-> "Errore durante l'elaborazione del PDF", detail |-> e]

except_return_partial(writer) == [kind |-> "bytes", pages |-> writer]

except_return(writer) == None

----------------------------------------------------------------------------
(* Start-up: a document has been uploaded, nothing has been called yet *)

Init ==
    /\ \E doc \in Documents :
         /\ pdf_bytes = doc
         /\ fault \in Faults(Len(doc))
    /\ start_page = 1
    /\ end_page = <<>>
    /\ pc = "idle"
    /\ reader_pages = <<>>
    /\ writer_pages = <<>>
    /\ total_pages = 0
    /\ page_idx = 0
    /\ progress_bar = ProgressEmpty
    /\ status_text = 0
    /\ result = Unset
    /\ error = NoError
    /\ download = NoDownload
    /\ call_args = [start_page |-> 1, end_page |-> <<>>]
    /\ calls = 0
    /\ applied = <<>>
    /\ selection_text = <<>>
    /\ totalPages = 0
    /\ selection = NotParsed

(* The arguments a call can be given for a document of n pages *)
StartPages(n) == 1..(n + 1)
EndPages(n) == { <<>> } \cup { <<e>> : e \in 0..n }

(* lines 202-211: the button calls the engine with the chosen arguments *)
ButtonClick ==
    /\ pc = "idle"
    /\ calls < MaxCalls
    /\ \E s \in StartPages(Len(pdf_bytes)), e \in EndPages(Len(pdf_bytes)) :
         /\ start_page' = s
         /\ end_page' = e
         /\ call_args' = [start_page |-> s, end_page |-> e]
    /\ pc' = "open"
    /\ calls' = calls + 1
    /\ reader_pages' = <<>>
    /\ writer_pages' = <<>>
    /\ total_pages' = 0
    /\ page_idx' = 0
    /\ progress_bar' = ProgressEmpty
    /\ status_text' = 0
    /\ result' = Unset
    /\ error' = NoError
    /\ download' = NoDownload
    /\ UNCHANGED <<pdf_bytes, fault, applied>>
    /\ UNCHANGED parser_vars

(* lines 76-90: decode, count the pages, default end_page, show progress 0 *)
OpenPdf ==
    /\ pc = "open"
    /\ fault.kind # "decode"
    /\ reader_pages' = pdf_bytes
    /\ writer_pages' = <<>>
    /\ total_pages' = Len(pdf_bytes)
    /\ end_page' = <<default_end(end_page, Len(pdf_bytes))>>
    /\ progress_bar' = ProgressZero
    /\ status_text' = 0
    /\ page_idx' = 0
    /\ pc' = "loop"
    /\ UNCHANGED <<pdf_bytes, fault, start_page, result, error, download, call_args, calls, applied>>
    /\ UNCHANGED parser_vars

(* line 79 raises: the except clause of lines 138-140 runs *)
OpenRaises ==
    /\ pc = "open"
    /\ fault.kind = "decode"
    /\ error' = except_report("PdfReadError")
    /\ result' = except_return(writer_pages)
    /\ pc' = "returned"
    /\ UNCHANGED <<pdf_bytes, fault, start_page, end_page, reader_pages, writer_pages,
                   total_pages, page_idx, progress_bar, status_text, download,
                   call_args, calls, applied>>
    /\ UNCHANGED parser_vars

(* lines 93-98: a page outside the interval *)
SkipPage ==
    /\ pc = "loop"
    /\ page_idx < total_pages
    /\ ~Numbered(page_idx, start_page, end_page[1])
    /\ writer_pages' = skip_page(writer_pages, reader_pages[page_idx + 1])
    /\ page_idx' = page_idx + 1
    /\ UNCHANGED <<pdf_bytes, fault, start_page, end_page, pc, reader_pages,
                   total_pages, progress_bar, status_text, result, error,
                   download, call_args, calls, applied>>
    /\ UNCHANGED parser_vars

(* lines 93-125: a page inside the interval *)
NumberPage ==
    /\ pc = "loop"
    /\ page_idx < total_pages
    /\ Numbered(page_idx, start_page, end_page[1])
    /\ ~(fault.kind = "page" /\ fault.page = page_idx + 1)
    /\ LET page == reader_pages[page_idx + 1]
           overlay_reader ==
               create_page_number_overlay(current_page_num(start_page, page_idx),
                                          page.width, page.height,
                                          DefaultFontSize, DefaultFontName)
           merged == merge_page(page, overlay_reader[1])
       IN  /\ progress_bar' = progress(page_idx, total_pages)
           /\ status_text' = page_idx + 1
           /\ reader_pages' = [reader_pages EXCEPT ![page_idx + 1] = merged]
           /\ writer_pages' = add_page(writer_pages, merged)
    /\ page_idx' = page_idx + 1
    /\ UNCHANGED <<pdf_bytes, fault, start_page, end_page, pc, total_pages,
                   result, error, download, call_args, calls, applied>>
    /\ UNCHANGED parser_vars

(* lines 103-109 then 138-140: progress is shown, then reading the page's  *)
(* geometry raises                                                         *)
PageRaises ==
    /\ pc = "loop"
    /\ page_idx < total_pages
    /\ Numbered(page_idx, start_page, end_page[1])
    /\ fault.kind = "page" /\ fault.page = page_idx + 1
    /\ progress_bar' = progress(page_idx, total_pages)
    /\ status_text' = page_idx + 1
    /\ error' = except_report("mediabox")
    /\ result' = except_return(writer_pages)
    /\ pc' = "returned"
    /\ UNCHANGED <<pdf_bytes, fault, start_page, end_page, reader_pages, writer_pages,
                   total_pages, page_idx, download, call_args, calls, applied>>
    /\ UNCHANGED parser_vars

(* lines 127-136: all pages iterated; write, clear the indicators, return *)
WriteOutput ==
    /\ pc = "loop"
    /\ page_idx = total_pages
    /\ fault.kind # "write"
    /\ progress_bar' = ProgressEmpty
    /\ status_text' = 0
    /\ result' = getvalue(writer_pages)
    /\ applied' = Append(applied, <<start_page, end_page[1]>>)
    /\ pc' = "returned"
    /\ UNCHANGED <<pdf_bytes, fault, start_page, end_page, reader_pages, writer_pages,
                   total_pages, page_idx, error, download, call_args, calls>>
    /\ UNCHANGED parser_vars

(* line 129 raises *)
WriteRaises ==
    /\ pc = "loop"
    /\ page_idx = total_pages
    /\ fault.kind = "write"
    /\ error' = except_report("write")
    /\ result' = except_return(writer_pages)
    /\ pc' = "returned"
    /\ UNCHANGED <<pdf_bytes, fault, start_page, end_page, reader_pages, writer_pages,
                   total_pages, page_idx, progress_bar, status_text, download,
                   call_args, calls, applied>>
    /\ UNCHANGED parser_vars

(* lines 213-227: a truthy result is offered for download *)
OfferDownload ==
    /\ pc = "returned"
    /\ result.kind = "bytes"
    /\ download' = [offered |-> TRUE, data |-> result.pages]
    /\ pc' = "done"
    /\ UNCHANGED <<pdf_bytes, fault, start_page, end_page, reader_pages, writer_pages,
                   total_pages, page_idx, progress_bar, status_text, result, error,
                   call_args, calls, applied>>
    /\ UNCHANGED parser_vars

(* line 213: None is falsy, nothing is offered *)
NoOffer ==
    /\ pc = "returned"
    /\ result.kind # "bytes"
    /\ pc' = "done"
    /\ UNCHANGED <<pdf_bytes, fault, start_page, end_page, reader_pages, writer_pages,
                   total_pages, page_idx, progress_bar, status_text, result, error,
                   download, call_args, calls, applied>>
    /\ UNCHANGED parser_vars

(* lines 150-165: the downloaded document is uploaded again *)
UploadAgain ==
    /\ pc = "done"
    /\ download.offered
    /\ calls < MaxCalls
    /\ pdf_bytes' = download.data
    /\ fault' = NoFault
    /\ pc' = "idle"
    /\ UNCHANGED <<start_page, end_page, reader_pages, writer_pages, total_pages,
                   page_idx, progress_bar, status_text, result, error, download,
                   call_args, calls, applied>>
    /\ UNCHANGED parser_vars

Next ==
    \/ ButtonClick
    \/ OpenPdf
    \/ OpenRaises
    \/ SkipPage
    \/ NumberPage
    \/ PageRaises
    \/ WriteOutput
    \/ WriteRaises
    \/ OfferDownload
    \/ NoOffer
    \/ UploadAgain

Spec == Init /\ [][Next]_vars

----------------------------------------------------------------------------
(* The range parser, parsePageSelection(selectionText, totalPages).        *)
(* A text is a sequence of characters.  Where the grammar leaves the       *)
(* outcome open (an empty token, a token with a leading sign, a range      *)
(* whose start exceeds its end) the parser is one of the Dialects.         *)

Chars == {"1", "2", ",", "-", "a"}
DigitChars == {"0", "1", "2", "3", "4", "5", "6", "7", "8", "9"}

Texts == UNION { [1..n -> Chars] : n \in 0..MaxLen }

Dialects == [blank : {"skip", "fail"}, sign : {"value", "fail"},
             inverted : {"empty", "fail"}]

(* the tokens between the commas; the empty text is one empty token *)
RECURSIVE split(_)
split(text) ==
    IF \A k \in 1..Len(text) : text[k] # ","
    THEN <<text>>
    ELSE LET k == CHOOSE k \in 1..Len(text) :
                    /\ text[k] = ","
                    /\ \A j \in 1..(k - 1) : text[j] # ","
         IN  <<SubSeq(text, 1, k - 1)>> \o split(SubSeq(text, k + 1, Len(text)))

IsInteger(t) == t # <<>> /\ \A k \in 1..Len(t) : t[k] \in DigitChars

(* start-end: digits, one hyphen, digits *)
IsRange(t) ==
    \E k \in 2..(Len(t) - 1) :
       /\ t[k] = "-"
       /\ IsInteger(SubSeq(t, 1, k - 1))
       /\ IsInteger(SubSeq(t, k + 1, Len(t)))

IsSigned(t) == Len(t) >= 2 /\ t[1] = "-" /\ IsInteger(Tail(t))

RangeStart(t) ==
    int(SubSeq(t, 1, (CHOOSE k \in 1..Len(t) : t[k] = "-") - 1))
RangeEnd(t) ==
    int(SubSeq(t, (CHOOSE k \in 1..Len(t) : t[k] = "-") + 1, Len(t)))

(* the integers of an inclusive range *)
range_values_exclusive(start, end) == start..(end - 1)

range_values(start, end) == start..end

(* what one token contributes, or that it cannot be parsed *)
token_values(t, dialect) ==
    IF t = <<>> THEN [ok |-> dialect.blank = "skip", values |-> {}]
    ELSE IF IsInteger(t) THEN [ok |-> TRUE, values |-> {int(t)}]
    ELSE IF IsRange(t) THEN
        IF RangeStart(t) > RangeEnd(t)
        THEN [ok |-> dialect.inverted = "empty", values |-> {}]
        ELSE [ok |-> TRUE, values |-> range_values(RangeStart(t), RangeEnd(t))]
    ELSE IF IsSigned(t) THEN [ok |-> dialect.sign = "value", values |-> {-int(Tail(t))}]
    ELSE [ok |-> FALSE, values |-> {}]

(* candidates outside [1, total_pages] are discarded *)
in_bounds(v, total) == 1 <= v /\ v <= total

(* the ascending sequence of a set of integers *)
RECURSIVE sorted(_)
sorted(S) ==
    IF S = {} THEN <<>>
    ELSE LET m == CHOOSE m \in S : \A v \in S : m <= v
         IN  <<m>> \o sorted(S \ {m})

parsePageSelection(text, total, dialect) ==
    LET tokens == split(text)
        parsed == [k \in 1..Len(tokens) |-> token_values(tokens[k], dialect)]
        candidates == UNION { parsed[k].values : k \in 1..Len(tokens) }
    IN  IF \E k \in 1..Len(tokens) : ~parsed[k].ok
        THEN InvalidFormat
        ELSE [kind |-> "ok",
              pages |-> sorted({ v \in candidates : in_bounds(v, total) })]

InitParser ==
    /\ pdf_bytes = <<>>
    /\ fault = NoFault
    /\ start_page = 1
    /\ end_page = <<>>
    /\ pc = "idle"
    /\ reader_pages = <<>>
    /\ writer_pages = <<>>
    /\ total_pages = 0
    /\ page_idx = 0
    /\ progress_bar = ProgressEmpty
    /\ status_text = 0
    /\ result = Unset
    /\ error = NoError
    /\ download = NoDownload
    /\ call_args = [start_page |-> 1, end_page |-> <<>>]
    /\ calls = 0
    /\ applied = <<>>
    /\ selection_text \in Texts
    /\ totalPages \in 0..MaxTotal
    /\ selection = NotParsed

ParseSelection ==
    /\ selection = NotParsed
    /\ \E dialect \in Dialects :
         selection' = parsePageSelection(selection_text, totalPages, dialect)
    /\ UNCHANGED <<selection_text, totalPages>>
    /\ UNCHANGED engine_vars

NextParser == ParseSelection

SpecParser == InitParser /\ [][NextParser]_vars

----------------------------------------------------------------------------
(* Vocabulary of the properties *)

Returned == pc \in {"returned", "done"}
Succeeded == Returned /\ result.kind = "bytes"
Failed == Returned /\ result.kind = "None"

(* The interval of the call, as the caller asked for it *)
AskedStart == call_args.start_page
AskedEnd ==
    IF call_args.end_page = <<>> THEN Len(pdf_bytes) ELSE call_args.end_page[1]
InInterval(i) == AskedStart <= i /\ i <= AskedEnd

(* What the call drew on output page i on top of input page i *)
Drawn(out, i) ==
    SubSeq(out[i].content, Len(pdf_bytes[i].content) + 1, Len(out[i].content))

IsPrefix(a, b) == Len(a) <= Len(b) /\ SubSeq(b, 1, Len(a)) = a

IsNumber(stream, n) == stream.kind = "overlay" /\ int(stream.text) = n

(* C1: a successful call returns exactly as many pages as it was given, and *)
(* output page i is input page i (same page, same geometry, its content    *)
(* kept as the beginning of the output page's content), numbered or not;   *)
(* while the call runs, the pages written so far are the first pages of    *)
(* the input, in order.                                                    *)
C1_SamePagesSameOrder ==
    /\ pc = "loop" =>
         /\ Len(writer_pages) = page_idx
         /\ \A i \in 1..page_idx : writer_pages[i].id = pdf_bytes[i].id
    /\ Succeeded =>
         /\ Len(result.pages) = Len(pdf_bytes)
         /\ \A i \in 1..Len(pdf_bytes) :
              /\ result.pages[i].id = pdf_bytes[i].id
              /\ result.pages[i].width = pdf_bytes[i].width
              /\ result.pages[i].height = pdf_bytes[i].height
              /\ IsPrefix(pdf_bytes[i].content, result.pages[i].content)

C1_Witness ==
    /\ Succeeded
    /\ Len(pdf_bytes) = MaxPages
    /\ \E i, j \in 1..Len(pdf_bytes) : InInterval(i) /\ ~InInterval(j)

(* C2: page i gets an overlay if and only if start_page <= i <= end_page;  *)
(* the overlay shows the number i; a page outside the interval is output   *)
(* exactly as it was input.                                                *)
C2_NumberedIffInInterval ==
    Succeeded =>
      \A i \in 1..Len(pdf_bytes) :
        IF InInterval(i)
        THEN /\ Len(Drawn(result.pages, i)) = 1
             /\ IsNumber(Drawn(result.pages, i)[1], i)
        ELSE result.pages[i] = pdf_bytes[i]

C2_Witness ==
    /\ Succeeded
    /\ Len(pdf_bytes) >= 3
    /\ AskedStart = 2
    /\ AskedEnd = 2

(* C3: the caller sees nothing before the call returns; when it returns the *)
(* caller has either the bytes of the whole written document and no error, *)
(* or None and an error report; only a whole document is ever offered for  *)
(* download.                                                               *)
C3_AllOrNothing ==
    /\ pc \in {"open", "loop"} => result = Unset /\ ~download.offered
    /\ Returned =>
         \/ /\ result.kind = "bytes"
            /\ ~error.shown
            /\ page_idx = total_pages
            /\ Len(result.pages) = Len(pdf_bytes)
            /\ result.pages = writer_pages
         \/ /\ result = None
            /\ error.shown
    /\ download.offered =>
         /\ result.kind = "bytes"
         /\ download.data = result.pages

C3_Witness ==
    /\ pc = "returned"
    /\ result = None
    /\ Len(writer_pages) >= 1
    /\ Len(writer_pages) < Len(pdf_bytes)

(* What a token of the text contributes *)
Contributes(t, v) ==
    \/ IsInteger(t) /\ int(t) = v
    \/ IsRange(t) /\ RangeStart(t) <= v /\ v <= RangeEnd(t)

(* C4: whenever the text parses, the result is strictly ascending (so free *)
(* of duplicates), every value lies in [1, totalPages], and a value is in  *)
(* the result exactly when it lies in [1, totalPages] and a single-integer *)
(* token names it or an inclusive start-end token covers it.               *)
C4_SortedDistinctInRange ==
    selection.kind = "ok" =>
       LET r == selection.pages
           tokens == split(selection_text)
       IN  /\ \A k \in 1..(Len(r) - 1) : r[k] < r[k + 1]
           /\ \A k \in 1..Len(r) : 1 <= r[k] /\ r[k] <= totalPages
           /\ \A v \in 0..(totalPages + 1) :
                (\E k \in 1..Len(r) : r[k] = v)
                  <=> /\ 1 <= v /\ v <= totalPages
                      /\ \E k \in 1..Len(tokens) : Contributes(tokens[k], v)

C4_Witness ==
    /\ selection.kind = "ok"
    /\ selection_text = <<"2", ",", "1", "-", "2">>
    /\ totalPages = 2
    /\ selection.pages = <<1, 2>>

(* The kind of an error report (the part the program fixes) and the page   *)
(* index it names, 0 when it names none                                    *)
ReportKind(e) == e.prefix
ReportPage(e) == IF "page" \in DOMAIN e THEN e.page ELSE 0

C7_ZeroPages ==
    (Len(pdf_bytes) = 0 /\ fault = NoFault) =>
       /\ pc \in {"loop", "returned", "done"} =>
            /\ total_pages = 0
            /\ writer_pages = <<>>
            /\ progress_bar.num = 0
            /\ progress_bar.den > 0
            /\ status_text = 0
       /\ Returned =>
            /\ result = [kind |-> "bytes", pages |-> <<>>]
            /\ ~error.shown
       /\ pc = "done" => download.offered /\ download.data = <<>>

C7_Witness ==
    /\ Len(pdf_bytes) = 0
    /\ fault = NoFault
    /\ pc = "done"
    /\ download.offered
    /\ call_args.start_page = 1

(* C8: after two successful applications with the same interval, a page in *)
(* the interval carries its original content, then the first application's *)
(* overlay, then the second's, both showing the page's index; a page       *)
(* outside carries its original content only; so the second application    *)
(* changes the document whenever the interval holds a page.                *)
C8_TwoOverlays ==
    (Succeeded /\ Len(applied) = 2 /\ applied[1] = applied[2]) =>
       /\ \A i \in 1..Len(pdf_bytes) :
            IF applied[1][1] <= i /\ i <= applied[1][2]
            THEN /\ Len(result.pages[i].content) = 3
                 /\ result.pages[i].content[1] = OriginalContent(i)
                 /\ IsNumber(result.pages[i].content[2], i)
                 /\ IsNumber(result.pages[i].content[3], i)
                 /\ SubSeq(result.pages[i].content, 1, 2) = pdf_bytes[i].content
            ELSE result.pages[i].content = <<OriginalContent(i)>>
       /\ (\E i \in 1..Len(pdf_bytes) : applied[1][1] <= i /\ i <= applied[1][2])
            => result.pages # pdf_bytes

C8_Witness ==
    /\ Succeeded
    /\ Len(applied) = 2
    /\ applied[1] = applied[2]
    /\ Len(pdf_bytes) >= 2
    /\ \E i, j \in 1..Len(pdf_bytes) :
         /\ applied[1][1] <= i /\ i <= applied[1][2]
         /\ ~(applied[1][1] <= j /\ j <= applied[1][2])

(* Progress fractions a/b compared by cross-multiplication (b > 0) *)
FracEq(p, n, d) == p.num * d = n * p.den
FracLess(p, q) == p.num * q.den < q.num * p.den

(* The last page among the first k that lies in the interval, 0 if none *)
LastNumbered(k) ==
    LET S == { i \in 1..k : InInterval(i) }
    IN  IF S = {} THEN 0 ELSE CHOOSE i \in S : \A j \in S : j <= i

(* C9 as stated: once k pages are processed, numbered or copied through,   *)
(* the progress shown is k/N (so it is 1 after the last page).             *)
C9_ProgressEveryPage ==
    (pc = "loop" /\ page_idx >= 1) =>
       /\ progress_bar.shown
       /\ FracEq(progress_bar, page_idx, total_pages)

(* C9 amended: the progress is set only when a page inside the interval is *)
(* processed, to k/N for page k; a page copied through leaves it as it is. *)
(* So once k pages are processed it is j/N for the last numbered page j    *)
(* among them (0 if none); it lies in [0, 1]; every change increases it;   *)
(* and it is 1 after the last page exactly when the last page is in the    *)
(* interval.                                                               *)
C9_ProgressNumberedOnly ==
    /\ [](pc = "loop" =>
            /\ progress_bar.shown
            /\ progress_bar.den > 0
            /\ 0 <= progress_bar.num /\ progress_bar.num <= progress_bar.den
            /\ FracEq(progress_bar, LastNumbered(page_idx),
                      IF total_pages = 0 THEN 1 ELSE total_pages)
            /\ (page_idx = total_pages /\ total_pages >= 1) =>
                 (FracEq(progress_bar, 1, 1) <=> InInterval(total_pages)))
    /\ [][(pc = "loop" /\ pc' = "loop") =>
            IF InInterval(page_idx')
            THEN /\ FracEq(progress_bar', page_idx', total_pages)
                 /\ FracLess(progress_bar, progress_bar')
            ELSE progress_bar' = progress_bar]_vars

C9_Witness ==
    /\ pc = "loop"
    /\ page_idx = total_pages
    /\ total_pages >= 2
    /\ ~InInterval(total_pages)
    /\ progress_bar.num >= 1

(* The interval holds no page of the document *)
IntervalEmpty ==
    \/ AskedStart > AskedEnd
    \/ AskedStart > Len(pdf_bytes)
    \/ AskedEnd < 1

(* C10: when the interval holds no page of a document that decodes and     *)
(* writes, the call reports no error and returns the input pages, in       *)
(* order, exactly as they were (even a page whose geometry cannot be read, *)
(* since it is never read); when end_page is omitted the engine uses the   *)
(* page count, so with start_page = 1 every page i is numbered i.          *)
C10_EmptyIntervalAndDefault ==
    /\ (Returned /\ IntervalEmpty /\ fault.kind \notin {"decode", "write"}) =>
         /\ result = [kind |-> "bytes", pages |-> pdf_bytes]
         /\ ~error.shown
    /\ (pc = "loop" /\ call_args.end_page = <<>>) => end_page = <<total_pages>>
    /\ (Succeeded /\ call_args.end_page = <<>> /\ call_args.start_page = 1) =>
         \A i \in 1..Len(pdf_bytes) :
           /\ Len(Drawn(result.pages, i)) = 1
           /\ IsNumber(Drawn(result.pages, i)[1], i)

C10_Witness ==
    /\ Returned
    /\ IntervalEmpty
    /\ AskedStart > AskedEnd
    /\ Len(pdf_bytes) >= 2
    /\ fault.kind = "page"
    /\ result.kind = "bytes"

====
